---- MODULE Spec2Model ----
(***************************************************************************)
(* Model of the communication layer of rv_seminarska                       *)
(* (src/communicator.py): the Communicator base class with its two worker  *)
(* threads and two queues, and PhantomCommunicator, the UDP session that   *)
(* frames packets and implements confirmation and trajectory retries.      *)
(*                                                                         *)
(* Three threads of control are modelled: the application thread that      *)
(* calls the public methods, the sender thread and the receiver thread.    *)
(* Each action is one atomic step of one thread; shared fields are read    *)
(* and written in the order the code does.  The peer and the datagram      *)
(* network are the environment.                                            *)
(***************************************************************************)
EXTENDS Integers, Sequences, FiniteSets, TLC

(***************************************************************************)
(* Bounds of the model (not program constants).                            *)
(***************************************************************************)
MaxOps == 2
MaxInject == 1
MaxResets == 1
MaxLiveOps == 3

(***************************************************************************)
(* Program constants.                                                      *)
(***************************************************************************)
COMMUNICATION_RETRIES == 3
PACKET_SIZE == 4
RECEIVE_BUFFER_SIZE == 4096
DOUBLE_BYTES == 8

START == 224
STOP == 225
BALL_POSITION == 240
TRAJECTORY_START == 241
TRAJECTORY_END == 242
TRAJECTORY_SAMPLE == 243

PacketTypes ==
  {START, STOP, BALL_POSITION,
   TRAJECTORY_START, TRAJECTORY_END, TRAJECTORY_SAMPLE}

(***************************************************************************)
(* Optional values: None is the empty sequence, a present value v is <<v>>.*)
(***************************************************************************)
None == <<>>
Some(v) == <<v>>
IsNone(o) == o = <<>>
TheValue(o) == o[1]

(***************************************************************************)
(* struct.pack(">d", v) and struct.unpack(">d", b) for the integers of     *)
(* magnitude below 4096: sign bit, 11-bit biased exponent, and the top 12  *)
(* bits of the 52-bit mantissa (the other 40 are zero for such values),    *)
(* most significant byte first.                                            *)
(***************************************************************************)
RECURSIVE Pow2(_)
Pow2(n) == IF n = 0 THEN 1 ELSE 2 * Pow2(n - 1)

RECURSIVE Log2Floor(_)
Log2Floor(m) == IF m < 2 THEN 0 ELSE 1 + Log2Floor(m \div 2)

Abs(v) == IF v < 0 THEN -v ELSE v

PackDouble(v) ==
  IF v = 0 THEN <<0, 0, 0, 0, 0, 0, 0, 0>>
  ELSE LET s == IF v < 0 THEN 1 ELSE 0
           m == Abs(v)
           e == Log2Floor(m)
           biased == e + 1023
           mant12 == ((m - Pow2(e)) * 4096) \div Pow2(e)
       IN  << s * 128 + biased \div 16,
              (biased % 16) * 16 + mant12 \div 256,
              mant12 % 256, 0, 0, 0, 0, 0 >>

\* (mutant) the sign bit ignored
UnpackDouble_NoSign(b) ==
  LET biased == (b[1] % 128) * 16 + b[2] \div 16
      mant12 == (b[2] % 16) * 256 + b[3]
      e == biased - 1023
  IN  IF biased = 0 /\ mant12 = 0 THEN 0
      ELSE Pow2(e) + (mant12 * Pow2(e)) \div 4096

UnpackDouble(b) ==
  LET s == b[1] \div 128
      biased == (b[1] % 128) * 16 + b[2] \div 16
      mant12 == (b[2] % 16) * 256 + b[3]
      e == biased - 1023
      m == Pow2(e) + (mant12 * Pow2(e)) \div 4096
  IN  IF biased = 0 /\ mant12 = 0 THEN 0
      ELSE IF s = 1 THEN -m ELSE m

RECURSIVE Pack(_)
\* struct.pack(">%sd" % data.size, *data.flatten("F"))
Pack(data) ==
  IF data = <<>> THEN <<>> ELSE PackDouble(Head(data)) \o Pack(Tail(data))

FrameBytes == PACKET_SIZE * DOUBLE_BYTES

\* recv(RECEIVE_BUFFER_SIZE): a longer datagram is cut to the buffer size
RecvBuffer(datagram) ==
  IF Len(datagram) > RECEIVE_BUFFER_SIZE
  THEN SubSeq(datagram, 1, RECEIVE_BUFFER_SIZE) ELSE datagram

\* (mutant) a length test that lets longer datagrams through
UnpackOk_AtLeast(packet) == Len(packet) >= FrameBytes

\* struct.unpack(">4d", packet) raises struct.error unless len(packet) = 32
UnpackOk(packet) == Len(packet) = FrameBytes

Unpack(packet) ==
  [i \in 1..(Len(packet) \div DOUBLE_BYTES) |->
     UnpackDouble(SubSeq(packet, DOUBLE_BYTES * (i - 1) + 1, DOUBLE_BYTES * i))]

(***************************************************************************)
(* send_packet's frame: zeros(PACKET_SIZE), field 0 the kind's value,      *)
(* packet[1:] = data when data is given.                                   *)
(***************************************************************************)
\* packet[1:] = data is a numpy assignment to PACKET_SIZE - 1 fields: data of
\* that many values is copied, data of one value is broadcast to every
\* field, and data of any other size raises ValueError.
Assignable(data) ==
  IsNone(data) \/ Len(TheValue(data)) \in {1, PACKET_SIZE - 1}

Broadcast(values) ==
  IF Len(values) = 1
  THEN [i \in 1..(PACKET_SIZE - 1) |-> values[1]]
  ELSE values

BuildPacket(kind, data) ==
  <<kind>> \o (IF IsNone(data) THEN <<0, 0, 0>>
               ELSE Broadcast(TheValue(data)))

\* (mutant) the length left out of the start frame
StartPayload_Zero(length) == <<0, 0, 0>>

\* _send_trajectory_start: zeros(PACKET_SIZE - 1) with field 0 the length
StartPayload(length) == <<length, 0, 0>>

\* (mutant) the guard off by one
TooShort_Two(trajectory) == Len(trajectory) < 2

\* send_trajectory's guard: len(trajectory) < 3
TooShort(trajectory) == Len(trajectory) < 3

\* (mutant) the confirmation's kind read from the wrong field
ConfirmationOk_WrongField(confirmation, kind) ==
  ~IsNone(confirmation) /\ TheValue(confirmation)[2] = kind

\* (mutant) a confirmation that must also carry a zero payload
ConfirmationOk_ZeroPayload(confirmation, kind) ==
  /\ ~IsNone(confirmation)
  /\ TheValue(confirmation) = <<kind, 0, 0, 0>>

\* (mutant) any reply taken as the confirmation
ConfirmationOk_Any(confirmation, kind) == ~IsNone(confirmation)

\* send_packet's test of the confirmation
ConfirmationOk(confirmation, kind) ==
  ~IsNone(confirmation) /\ TheValue(confirmation)[1] = kind

(***************************************************************************)
(* Queue.get / Queue.put on a FIFO queue.                                  *)
(***************************************************************************)
QueuePut(q, x) == Append(q, x)
\* (mutant) a queue that hands out its newest item
QueueFront_Last(q) == q[Len(q)]
QueueFront(q) == Head(q)
\* (mutant) a get that empties the queue
QueueRest_Empty(q) == <<>>

QueueRest(q) == Tail(q)


(***************************************************************************)
(* Inputs the application draws from.                                      *)
(***************************************************************************)
Position == <<5, 6, 7>>
Traj2 == <<<<1, 2, 0>>, <<3, 4, 0>>>>
Traj3 == <<<<1, 2, 0>>, <<3, 4, 0>>, <<1, 2, 0>>>>
Traj4 == <<<<1, 2, 0>>, <<3, 4, 0>>, <<5, -6, 0>>, <<1, 2, 0>>>>
Trajectories == {Traj2, Traj3, Traj4}
RawArray == <<69, 70, 71, 72>>

\* The calls of send_packet the application makes: every kind with
\* confirm=True (send_start is the one of kind START), and the unconfirmed
\* calls send_stop and send_ball_position make.
\* The peer rv.py connects to, and another one a later connect() may name.
SERVER_IP == "127.0.0.1"
PORT_SEND == 6969
PORT_RECEIVE == 9696
OtherPeer == [ip |-> "127.0.0.2", port_send |-> PORT_SEND + 1,
              port_receive |-> PORT_RECEIVE + 1]

\* The arguments of connect(ip, port_send, port_receive): none given, or
\* all three.
ConnectArgs ==
  {[ip |-> None, port_send |-> None, port_receive |-> None],
   [ip |-> Some(OtherPeer.ip), port_send |-> Some(OtherPeer.port_send),
    port_receive |-> Some(OtherPeer.port_receive)]}

\* App.States
States ==
  {"STATE_QUIT", "STATE_HANDSHAKE", "STATE_CAPTURE_AREA", "STATE_CALIBRATE",
   "STATE_TRACKING"}

PacketCalls ==
  {[kind |-> k, data |-> None, confirm |-> TRUE] : k \in PacketTypes}
  \cup {[kind |-> STOP, data |-> None, confirm |-> FALSE],
        [kind |-> BALL_POSITION, data |-> Some(Position), confirm |-> FALSE]}

(***************************************************************************)
(* Behaviours of the peer.                                                 *)
(*   echo       echoes every datagram it gets, verbatim                    *)
(*   ack        echoes the datagrams of the kinds the session sends with   *)
(*              confirm=True (START, TRAJECTORY_START, TRAJECTORY_END)     *)
(*   ack_drop1  as ack, but ignores the first TRAJECTORY_START it gets     *)
(*   silent     never sends anything                                       *)
(*   noisy      sends datagrams of its own, well-formed or not, one at a  *)
(*              time                                                       *)
(*   resetting  never sends anything; the read of the receive socket may   *)
(*              fail with a connection reset                               *)
(* The first three peers are responsive: their reply arrives within the    *)
(* communication timeout.                                                  *)
(***************************************************************************)
PeerModes == {"echo", "ack", "ack_drop1", "silent", "noisy", "resetting"}
Responsive(m) == m \in {"echo", "ack", "ack_drop1"}
AckKinds == {START, TRAJECTORY_START, TRAJECTORY_END}

\* Datagrams the noisy peer sends: frames of 32 bytes and datagrams that
\* are too short, too long, or empty.
NoisyDatagrams ==
  { Pack(<<START, 0, 0, 0>>),
    Pack(<<START, 0, 0, 0, 0>>),
    SubSeq(Pack(<<START, 0, 0, 0>>), 1, FrameBytes - 1) }

VARIABLES
  ip,             \* PhantomCommunicator._ip (None or a value)
  port_send,      \* PhantomCommunicator._port_send
  port_receive,   \* PhantomCommunicator._port_receive
  state,          \* App._state (rv.py)
  opened,         \* history: number of sockets created so far
  opDisconnected, \* history: was it disconnected when the call started
  running,        \* Communicator._running
  queue_send,     \* Communicator._queue_send: records [id, data]
  queue_receive,  \* Communicator._queue_receive: decoded frames
  sock_send,      \* PhantomCommunicator._sock_send: "none", "open", "closed"
  sock_receive,   \* PhantomCommunicator._sock_receive
  pc,             \* position of the application, sender and receiver threads
  op,             \* the call the application thread is in (or made last)
  retry,          \* send_trajectory's loop variable
  idx,            \* send_trajectory's position in the samples
  ret,            \* what the last call returned or raised
  got,            \* the last item receive() returned (None if none)
  mode,           \* the peer's behaviour
  net_in,         \* datagrams waiting in the receive socket's buffer
  wire,           \* datagrams handed to sendto: records [id, bytes]
  peer_dropped,   \* ack_drop1: has the peer ignored a TRAJECTORY_START
  injected,       \* number of datagrams the noisy peer has sent
  resets,         \* number of connection resets reported
  nextId,         \* history: number of send() calls so far
  sentLog,        \* history: the data of each send() call, by id
  opsDone,        \* number of calls the application has started
  opFirstId,      \* history: nextId when the current call started
  opClean,        \* history: was nothing outstanding when the call started
  opConnected,    \* history: was the session connected when the call started
  opPeerFresh,    \* history: had the peer seen no TRAJECTORY_START by then
  opTook          \* history: inbound items the current call has removed

vars ==
  <<running, queue_send, queue_receive, sock_send, sock_receive, pc,
    op, retry, idx, ret, got, mode, net_in, wire, peer_dropped, injected,
    resets, nextId, sentLog, opsDone, opFirstId, opClean, opConnected,
    opPeerFresh, opTook, ip, port_send, port_receive, state, opDisconnected,
    opened>>

sessionVars == <<running, queue_send, queue_receive, sock_send, sock_receive>>
connectVars == <<ip, port_send, port_receive, opened>>
opHist == <<opFirstId, opClean, opConnected, opPeerFresh, opDisconnected>>
appVars == <<op, retry, idx, ret, got, opsDone, opHist, opTook>>
envVars == <<mode, net_in, wire, peer_dropped, injected, resets>>
histVars == <<nextId, sentLog>>

Threads == {"app", "sender", "receiver"}

\* Thread.is_alive(): started and not yet finished
Alive(t) == pc[t] \notin {"new", "done", "crashed"}

NoOp == [name |-> "none", kind |-> 0, data |-> None, confirm |-> FALSE,
         traj |-> <<>>, args |-> "-"]

(***************************************************************************)
(* The state after construction.  PhantomCommunicator.__init__ connects    *)
(* at once when ip and both ports are given (as rv.py does) and leaves     *)
(* the session unconnected otherwise.                                      *)
(***************************************************************************)
Init ==
  /\ mode \in PeerModes
  /\ \E connected \in BOOLEAN :
       /\ running = connected
       /\ sock_send = (IF connected THEN "open" ELSE "none")
       /\ sock_receive = (IF connected THEN "open" ELSE "none")
       /\ pc = [t \in Threads |->
                  IF t = "app" THEN "idle"
                  ELSE IF connected THEN "loop" ELSE "new"]
       /\ ip = (IF connected THEN Some(SERVER_IP) ELSE None)
       /\ port_send = (IF connected THEN Some(PORT_SEND) ELSE None)
       /\ port_receive = (IF connected THEN Some(PORT_RECEIVE) ELSE None)
       /\ opDisconnected = ~connected
       /\ opened = (IF connected THEN 2 ELSE 0)
  /\ state = "STATE_HANDSHAKE"
  /\ queue_send = <<>>
  /\ queue_receive = <<>>
  /\ op = NoOp
  /\ retry = 0
  /\ idx = 0
  /\ ret = "-"
  /\ got = None
  /\ net_in = <<>>
  /\ wire = <<>>
  /\ peer_dropped = FALSE
  /\ injected = 0
  /\ resets = 0
  /\ nextId = 0
  /\ sentLog = <<>>
  /\ opsDone = 0
  /\ opFirstId = 0
  /\ opClean = TRUE
  /\ opConnected = FALSE
  /\ opPeerFresh = TRUE
  /\ opTook = 0

(***************************************************************************)
(* The peer's reply to one datagram, appended to the receive buffer.  A    *)
(* datagram sent to a socket that is not open is lost.                     *)
(***************************************************************************)
PeerEchoes(bytes) ==
  \/ mode = "echo"
  \/ /\ mode \in {"ack", "ack_drop1"}
     /\ UnpackOk(bytes)
     /\ Unpack(bytes)[1] \in AckKinds
     /\ ~(mode = "ack_drop1" /\ ~peer_dropped
          /\ Unpack(bytes)[1] = TRAJECTORY_START)

PeerReceives(bytes) ==
  /\ net_in' = IF PeerEchoes(bytes) /\ sock_receive = "open"
               THEN Append(net_in, bytes) ELSE net_in
  /\ peer_dropped' = (peer_dropped
                      \/ (mode = "ack_drop1" /\ UnpackOk(bytes)
                          /\ Unpack(bytes)[1] = TRAJECTORY_START))

(***************************************************************************)
(* Communicator._sender                                                    *)
(***************************************************************************)
\* while self._running: the test that follows the end of an iteration is
\* taken with the iteration's last step
SenderNext == IF running THEN "get" ELSE "done"

\* the first test of self._running, after Thread.start
SenderLoop ==
  /\ pc["sender"] = "loop"
  /\ pc' = [pc EXCEPT !["sender"] = SenderNext]
  /\ UNCHANGED <<sessionVars, appVars, envVars, histVars>>
  /\ UNCHANGED <<connectVars, state>>

\* data = self._queue_send.get(...); if data is not None: self._send(data).
\* _send returns at once when there is no send socket; otherwise it packs
\* the data and hands the datagram to sendto, which raises OSError on a
\* closed handle: the exception is not caught and ends the thread.
SenderGet ==
  /\ pc["sender"] = "get"
  /\ queue_send # <<>>
  /\ LET item == QueueFront(queue_send)
     IN  /\ queue_send' = QueueRest(queue_send)
         /\ IF IsNone(item.data) \/ sock_send = "none"
            THEN /\ pc' = [pc EXCEPT !["sender"] = SenderNext]
                 /\ UNCHANGED <<wire, net_in, peer_dropped>>
            ELSE IF sock_send = "closed"
            THEN /\ pc' = [pc EXCEPT !["sender"] = "crashed"]
                 /\ UNCHANGED <<wire, net_in, peer_dropped>>
            ELSE LET bytes == Pack(TheValue(item.data))
                 IN  /\ wire' = Append(wire, [id |-> item.id, bytes |-> bytes,
                                           to |-> <<ip, port_send>>])
                     /\ PeerReceives(bytes)
                     /\ pc' = [pc EXCEPT !["sender"] = SenderNext]
  /\ UNCHANGED <<running, queue_receive, sock_send, sock_receive, appVars,
                 mode, injected, resets, histVars>>
  /\ UNCHANGED <<connectVars, state>>

\* except Empty: continue
SenderEmpty ==
  /\ pc["sender"] = "get"
  /\ queue_send = <<>>
  /\ pc' = [pc EXCEPT !["sender"] = SenderNext]
  /\ UNCHANGED <<sessionVars, appVars, envVars, histVars>>
  /\ UNCHANGED <<connectVars, state>>

Sender == SenderLoop \/ SenderGet \/ SenderEmpty


(***************************************************************************)
(* Communicator.disconnect and PhantomCommunicator.disconnect, run by the  *)
(* thread `who`: the application, or the receiver thread from _receive's   *)
(* ConnectionResetError handler.                                           *)
(***************************************************************************)
\* what the thread does when disconnect() returns
DisconnectReturns(who) ==
  IF who = "app"
  THEN /\ pc' = [pc EXCEPT ![who] = "idle"]
       /\ ret' = "None"
  ELSE /\ pc' = [pc EXCEPT ![who] = "loop"]   \* _receive returns None
       /\ ret' = ret

\* what the thread does when disconnect() raises
DisconnectRaises(who, exception) ==
  IF who = "app"
  THEN /\ pc' = [pc EXCEPT ![who] = "idle"]
       /\ ret' = exception
  ELSE /\ pc' = [pc EXCEPT ![who] = "crashed"]
       /\ ret' = ret

\* Thread.join on the calling thread itself raises RuntimeError
JoinRaises(who, thread) == who = thread

\* if not self._running: return; self._running = False
DisconnectEnter(who) ==
  /\ pc[who] = "d_enter"
  /\ IF running
     THEN /\ running' = FALSE
          /\ pc' = [pc EXCEPT ![who] = "d_join_r"]
     ELSE /\ running' = running
          /\ pc' = [pc EXCEPT ![who] = "d_close_s"]
  /\ UNCHANGED <<queue_send, queue_receive, sock_send, sock_receive,
                 appVars, envVars, histVars>>
  /\ UNCHANGED <<connectVars, state>>

\* self._thread_receiver.join(timeout=None)
DisconnectJoinReceiver(who) ==
  /\ pc[who] = "d_join_r"
  /\ IF JoinRaises(who, "receiver")
     THEN DisconnectRaises(who, "RuntimeError")
     ELSE /\ ~Alive("receiver")
          /\ pc' = [pc EXCEPT ![who] = "d_join_s"]
          /\ ret' = ret
  /\ UNCHANGED <<sessionVars, op, retry, idx, got, opsDone,
                 opHist, opTook, envVars, histVars>>
  /\ UNCHANGED <<connectVars, state>>

\* self._thread_sender.join(timeout=None)
DisconnectJoinSender(who) ==
  /\ pc[who] = "d_join_s"
  /\ ~Alive("sender")
  /\ pc' = [pc EXCEPT ![who] = "d_close_s"]
  /\ UNCHANGED <<sessionVars, appVars, envVars, histVars>>
  /\ UNCHANGED <<connectVars, state>>

\* if self._sock_send is not None:
DisconnectTestSend(who) ==
  /\ pc[who] = "d_close_s"
  /\ pc' = [pc EXCEPT ![who] =
              IF sock_send # "none" THEN "d_close_s2" ELSE "d_close_r"]
  /\ UNCHANGED <<sessionVars, appVars, envVars, histVars>>
  /\ UNCHANGED <<connectVars, state>>

\* self._sock_send.close()
DisconnectCloseSend(who) ==
  /\ pc[who] = "d_close_s2"
  /\ IF sock_send = "none"
     THEN /\ DisconnectRaises(who, "AttributeError")
          /\ sock_send' = sock_send
     ELSE /\ sock_send' = "closed"
          /\ pc' = [pc EXCEPT ![who] = "d_clear_s"]
          /\ ret' = ret
  /\ UNCHANGED <<running, queue_send, queue_receive, sock_receive,
                 op, retry, idx, got, opsDone, opHist, opTook,
                 envVars, histVars>>
  /\ UNCHANGED <<connectVars, state>>

\* self._sock_send = None
DisconnectClearSend(who) ==
  /\ pc[who] = "d_clear_s"
  /\ sock_send' = "none"
  /\ pc' = [pc EXCEPT ![who] = "d_close_r"]
  /\ UNCHANGED <<running, queue_send, queue_receive, sock_receive,
                 appVars, envVars, histVars>>
  /\ UNCHANGED <<connectVars, state>>

\* if self._sock_receive is not None:
DisconnectTestReceive(who) ==
  /\ pc[who] = "d_close_r"
  /\ IF sock_receive # "none"
     THEN /\ pc' = [pc EXCEPT ![who] = "d_close_r2"]
          /\ ret' = ret
     ELSE DisconnectReturns(who)
  /\ UNCHANGED <<sessionVars, op, retry, idx, got, opsDone,
                 opHist, opTook, envVars, histVars>>
  /\ UNCHANGED <<connectVars, state>>

\* self._sock_receive.close(): the socket's buffer goes with it
DisconnectCloseReceive(who) ==
  /\ pc[who] = "d_close_r2"
  /\ IF sock_receive = "none"
     THEN /\ DisconnectRaises(who, "AttributeError")
          /\ UNCHANGED <<sock_receive, net_in>>
     ELSE /\ sock_receive' = "closed"
          /\ net_in' = <<>>
          /\ pc' = [pc EXCEPT ![who] = "d_clear_r"]
          /\ ret' = ret
  /\ UNCHANGED <<running, queue_send, queue_receive, sock_send,
                 op, retry, idx, got, opsDone, opHist, opTook,
                 mode, wire, peer_dropped, injected, resets, histVars>>
  /\ UNCHANGED <<connectVars, state>>

\* self._sock_receive = None, and disconnect() returns
DisconnectClearReceive(who) ==
  /\ pc[who] = "d_clear_r"
  /\ sock_receive' = "none"
  /\ DisconnectReturns(who)
  /\ UNCHANGED <<running, queue_send, queue_receive, sock_send,
                 op, retry, idx, got, opsDone, opHist, opTook,
                 envVars, histVars>>
  /\ UNCHANGED <<connectVars, state>>

Disconnect(who) ==
  \/ DisconnectEnter(who)
  \/ DisconnectJoinReceiver(who)
  \/ DisconnectJoinSender(who)
  \/ DisconnectTestSend(who)
  \/ DisconnectCloseSend(who)
  \/ DisconnectClearSend(who)
  \/ DisconnectTestReceive(who)
  \/ DisconnectCloseReceive(who)
  \/ DisconnectClearReceive(who)

(***************************************************************************)
(* Communicator._receiver with PhantomCommunicator._receive                *)
(***************************************************************************)
\* while self._running: data = self._receive(), up to _receive's test of
\* self._sock_receive (None is returned when there is no socket).  The test
\* that follows the end of an iteration is taken with the iteration's last
\* step.
ReceiverNext ==
  IF ~running THEN "done"
  ELSE IF sock_receive = "none" THEN "loop" ELSE "recv"

\* the first test of self._running, after Thread.start, and every test
\* while there is no socket
ReceiverLoop ==
  /\ pc["receiver"] = "loop"
  /\ pc' = [pc EXCEPT !["receiver"] = ReceiverNext]
  /\ UNCHANGED <<sessionVars, appVars, envVars, histVars>>
  /\ UNCHANGED <<connectVars, state>>

\* packet = recv(...); return struct.unpack(...); put_nowait(data).
\* struct.error is caught: None is returned and nothing is queued.  recv on
\* a closed handle raises OSError, which is not caught and ends the thread.
ReceiverRecv ==
  /\ pc["receiver"] = "recv"
  /\ sock_receive = "open" => net_in # <<>>
  /\ IF sock_receive # "open"
     THEN /\ pc' = [pc EXCEPT !["receiver"] = "crashed"]
          /\ UNCHANGED <<queue_receive, net_in>>
     ELSE /\ LET packet == RecvBuffer(Head(net_in))
             IN  queue_receive' = IF UnpackOk(packet)
                                  THEN QueuePut(queue_receive, Unpack(packet))
                                  ELSE queue_receive
          /\ net_in' = Tail(net_in)
          /\ pc' = [pc EXCEPT !["receiver"] = ReceiverNext]
  /\ UNCHANGED <<running, queue_send, sock_send, sock_receive, appVars, mode,
                 wire, peer_dropped, injected, resets, histVars>>
  /\ UNCHANGED <<connectVars, state>>

\* except ConnectionResetError: self.disconnect()
ReceiverReset ==
  /\ pc["receiver"] = "recv"
  /\ sock_receive = "open"
  /\ mode = "resetting"
  /\ resets < MaxResets
  /\ resets' = resets + 1
  /\ pc' = [pc EXCEPT !["receiver"] = "d_enter"]
  /\ UNCHANGED <<sessionVars, appVars, mode, net_in, wire,
                 peer_dropped, injected, histVars>>
  /\ UNCHANGED <<connectVars, state>>

Receiver ==
  \/ ReceiverLoop \/ ReceiverRecv \/ ReceiverReset
  \/ Disconnect("receiver")

\* the noisy peer sends a datagram of its own, one at a time: the next one
\* once the receive socket's buffer has been read empty
PeerInject ==
  /\ mode = "noisy"
  /\ injected < MaxInject
  /\ sock_receive = "open"
  /\ net_in = <<>>
  /\ \E d \in NoisyDatagrams : net_in' = Append(net_in, d)
  /\ injected' = injected + 1
  /\ UNCHANGED <<sessionVars, pc, appVars, mode, wire, peer_dropped,
                 resets, histVars>>
  /\ UNCHANGED <<connectVars, state>>


(***************************************************************************)
(* The application thread: the public methods.                             *)
(***************************************************************************)
\* Communicator.send: self._queue_send.put(data)
Send(data) ==
  /\ queue_send' = QueuePut(queue_send, [id |-> nextId, data |-> data])
  /\ nextId' = nextId + 1
  /\ sentLog' = Append(sentLog, data)

\* Nothing is outstanding: no inbound item, no datagram waiting to be read,
\* no outbound item waiting to be sent.
NothingOutstanding ==
  /\ queue_receive = <<>>
  /\ net_in = <<>>
  /\ queue_send = <<>>

\* A reply of a responsive peer can still arrive.
ReplyCanArrive ==
  /\ Alive("receiver")
  /\ sock_receive = "open"
  /\ \/ net_in # <<>>
     \/ /\ Alive("sender")
        /\ sock_send = "open"
        /\ queue_send # <<>>

\* Queue.get(block=True, timeout=...) raises Empty: the queue is empty and
\* the timeout has passed.  A responsive peer's reply arrives in time.
TimeoutMayFire ==
  /\ queue_receive = <<>>
  /\ (Responsive(mode) => ~ReplyCanArrive)

\* The session is disconnected: not running, no socket, no thread alive.
Disconnected ==
  /\ ~running
  /\ sock_send = "none"
  /\ sock_receive = "none"
  /\ ~Alive("sender")
  /\ ~Alive("receiver")

\* The session is connected: running, both sockets open, both threads alive.
Connected ==
  /\ running
  /\ sock_send = "open"
  /\ sock_receive = "open"
  /\ Alive("sender")
  /\ Alive("receiver")

\* the application thread starts a call
Call(call) ==
  /\ pc["app"] = "idle"
  /\ op' = call
  /\ opsDone' = opsDone + 1
  /\ opFirstId' = nextId
  /\ opClean' = NothingOutstanding
  /\ opConnected' = Connected
  /\ opPeerFresh' = ~peer_dropped
  /\ opDisconnected' = Disconnected
  /\ opTook' = 0

\* a call of the client of the library, of which the model follows MaxOps
Begin(call) == opsDone < MaxOps /\ Call(call)

\* connect(ip, port_send, port_receive): the fields whose argument is given
\* are assigned first; then, unless a socket is open already, the sockets
\* are created and Communicator.connect sets running and starts the
\* threads.  socket.connect raises TypeError when the address holds None:
\* the send socket has been created by then, the receive socket has not.
\* Thread.start raises RuntimeError on a thread that was started before.
Given(arg, field) == IF IsNone(arg) THEN field ELSE arg

\* (mutant) connect() that never finds the sockets open
SocketsOpen_Never == FALSE

\* if self._sock_send is not None or self._sock_receive is not None: return
SocketsOpen == sock_send # "none" \/ sock_receive # "none"

Connect(args) ==
  /\ Call([NoOp EXCEPT !.name = "connect"])
  /\ ip' = Given(args.ip, ip)
  /\ port_send' = Given(args.port_send, port_send)
  /\ port_receive' = Given(args.port_receive, port_receive)
  /\ IF SocketsOpen
     THEN /\ ret' = "None"
          /\ UNCHANGED <<running, sock_send, sock_receive, pc, opened>>
     ELSE IF IsNone(ip') \/ IsNone(port_send')
     THEN /\ sock_send' = "open"
          /\ opened' = opened + 1
          /\ ret' = "TypeError"
          /\ UNCHANGED <<running, sock_receive, pc>>
     ELSE /\ sock_send' = "open"
          /\ sock_receive' = "open"
          /\ opened' = opened + 2
          /\ IF running
             THEN /\ ret' = "None"
                  /\ UNCHANGED <<running, pc>>
             ELSE /\ running' = TRUE
                  /\ IF pc["receiver"] = "new"
                     THEN /\ pc' = [pc EXCEPT !["receiver"] = "loop",
                                              !["sender"] = "loop"]
                          /\ ret' = "None"
                     ELSE /\ pc' = pc
                          /\ ret' = "RuntimeError"
  /\ UNCHANGED <<queue_send, queue_receive, retry, idx, got,
                 envVars, histVars, state>>

AppConnect ==
  /\ opsDone < MaxOps
  /\ \E args \in ConnectArgs : Connect(args)

\* disconnect()
AppDisconnect ==
  /\ Begin([NoOp EXCEPT !.name = "disconnect"])
  /\ pc' = [pc EXCEPT !["app"] = "d_enter"]
  /\ UNCHANGED <<sessionVars, retry, idx, ret, got, envVars,
                 histVars>>
  /\ UNCHANGED <<connectVars, state>>

\* send(data)
AppSend ==
  /\ \E data \in {None, Some(RawArray)} :
       /\ Begin([NoOp EXCEPT !.name = "send", !.data = data])
       /\ Send(data)
  /\ ret' = "None"
  /\ UNCHANGED <<running, queue_receive, sock_send, sock_receive, pc,
                 retry, idx, got, envVars>>
  /\ UNCHANGED <<connectVars, state>>

\* receive(), receive(block=False), receive(block=True, timeout=...)
AppReceive ==
  /\ \E args \in {"default", "nowait", "timeout"} :
       Begin([NoOp EXCEPT !.name = "receive", !.args = args])
  /\ pc' = [pc EXCEPT !["app"] = "rx_wait"]
  /\ UNCHANGED <<sessionVars, retry, idx, ret, got, envVars,
                 histVars>>
  /\ UNCHANGED <<connectVars, state>>

\* data = self._queue_receive.get(**kwargs); return data
AppReceiveGet ==
  /\ pc["app"] = "rx_wait"
  /\ queue_receive # <<>>
  /\ got' = Some(QueueFront(queue_receive))
  /\ queue_receive' = QueueRest(queue_receive)
  /\ opTook' = opTook + 1
  /\ ret' = "Data"
  /\ pc' = [pc EXCEPT !["app"] = "idle"]
  /\ UNCHANGED <<running, queue_send, sock_send, sock_receive, op,
                 retry, idx, opsDone, opHist,
                 envVars, histVars>>
  /\ UNCHANGED <<connectVars, state>>

\* (mutant) the timeout is not passed on to Queue.get
GetRaisesEmpty_NoTimeout(args) == args = "nowait"

\* Does Queue.get(**kwargs) raise Empty on an empty queue?  Without
\* arguments get() blocks with no timeout and never does.
GetRaisesEmpty(args) ==
  \/ args = "nowait"
  \/ args = "timeout" /\ TimeoutMayFire

\* except Empty: return None
AppReceiveEmpty ==
  /\ pc["app"] = "rx_wait"
  /\ queue_receive = <<>>
  /\ GetRaisesEmpty(op.args)
  /\ got' = None
  /\ ret' = "None"
  /\ pc' = [pc EXCEPT !["app"] = "idle"]
  /\ UNCHANGED <<sessionVars, op, retry, idx, opsDone, opHist, opTook, envVars,
                 histVars>>
  /\ UNCHANGED <<connectVars, state>>

\* send_packet(kind, data, confirm) up to the wait for the confirmation;
\* send_start, send_stop and send_ball_position are calls of it
PacketOp(call) ==
  [NoOp EXCEPT !.name = "send_packet", !.kind = call.kind,
               !.data = call.data, !.confirm = call.confirm]

SendPacket(call) ==
  /\ Send(Some(BuildPacket(call.kind, call.data)))
  /\ IF call.confirm
     THEN /\ pc' = [pc EXCEPT !["app"] = "pkt_wait"]
          /\ ret' = ret
     ELSE /\ pc' = pc
          /\ ret' = "True"
  /\ UNCHANGED <<running, queue_receive, sock_send, sock_receive,
                 retry, idx, got, envVars>>

AppSendPacket ==
  /\ \E call \in PacketCalls : Begin(PacketOp(call)) /\ SendPacket(call)
  /\ UNCHANGED <<connectVars, state>>

\* send_trajectory(trajectory): the guard, and the start of the retry loop
SendTrajectory(t) ==
  /\ Begin([NoOp EXCEPT !.name = "send_trajectory", !.traj = t])
  /\ IF TooShort(t)
     THEN /\ ret' = "False"
          /\ pc' = pc
     ELSE /\ ret' = ret
          /\ pc' = [pc EXCEPT !["app"] = "ts_send"]
  /\ retry' = 0
  /\ idx' = 0
  /\ UNCHANGED <<sessionVars, got, envVars, histVars>>

AppSendTrajectory ==
  /\ \E t \in Trajectories : SendTrajectory(t)
  /\ UNCHANGED <<connectVars, state>>

\* _send_trajectory_start(len(trajectory)), up to the wait
AppTrajectoryStart ==
  /\ pc["app"] = "ts_send"
  /\ Send(Some(BuildPacket(TRAJECTORY_START,
                           Some(StartPayload(Len(op.traj))))))
  /\ pc' = [pc EXCEPT !["app"] = "ts_wait"]
  /\ UNCHANGED <<running, queue_receive, sock_send, sock_receive,
                 appVars, envVars>>
  /\ UNCHANGED <<connectVars, state>>

\* for sample in trajectory: self._send_trajectory_sample(sample)
AppTrajectorySample ==
  /\ pc["app"] = "sample"
  /\ Send(Some(BuildPacket(TRAJECTORY_SAMPLE, Some(op.traj[idx]))))
  /\ IF idx < Len(op.traj)
     THEN /\ idx' = idx + 1
          /\ pc' = pc
     ELSE /\ idx' = idx
          /\ pc' = [pc EXCEPT !["app"] = "te_send"]
  /\ UNCHANGED <<running, queue_receive, sock_send, sock_receive,
                 op, retry, ret, got, opsDone, opHist, opTook,
                 envVars>>
  /\ UNCHANGED <<connectVars, state>>

\* _send_trajectory_end(), up to the wait
AppTrajectoryEnd ==
  /\ pc["app"] = "te_send"
  /\ Send(Some(BuildPacket(TRAJECTORY_END, None)))
  /\ pc' = [pc EXCEPT !["app"] = "te_wait"]
  /\ UNCHANGED <<running, queue_receive, sock_send, sock_receive,
                 appVars, envVars>>
  /\ UNCHANGED <<connectVars, state>>

WaitStates == {"pkt_wait", "ts_wait", "te_wait"}

\* (mutant) the end of a trajectory confirmed against TRAJECTORY_START
AwaitedKind_StartOnly ==
  IF pc["app"] \in {"ts_wait", "te_wait"} THEN TRAJECTORY_START ELSE op.kind

\* the kind whose confirmation the application waits for
AwaitedKind ==
  IF pc["app"] = "ts_wait" THEN TRAJECTORY_START
  ELSE IF pc["app"] = "te_wait" THEN TRAJECTORY_END
  ELSE op.kind

\* (mutant) a single attempt
MoreAttempts_None(r) == FALSE

\* (mutant) one attempt too many
MoreAttempts_OneMore(r) == r < COMMUNICATION_RETRIES

\* for retry in range(COMMUNICATION_RETRIES): is there another attempt
MoreAttempts(r) == r + 1 < COMMUNICATION_RETRIES

\* send_packet returns `ok`: what its caller does next
AfterConfirmation(ok) ==
  IF pc["app"] = "pkt_wait"
  THEN /\ ret' = (IF ok THEN "True" ELSE "False")
       /\ pc' = [pc EXCEPT !["app"] = "idle"]
       /\ UNCHANGED <<retry, idx>>
  ELSE IF pc["app"] = "ts_wait" /\ ok
  THEN /\ pc' = [pc EXCEPT !["app"] = "sample"]
       /\ idx' = 1
       /\ UNCHANGED <<retry, ret>>
  ELSE IF pc["app"] = "te_wait" /\ ok
  THEN /\ ret' = "True"
       /\ pc' = [pc EXCEPT !["app"] = "idle"]
       /\ UNCHANGED <<retry, idx>>
  ELSE IF MoreAttempts(retry)
  THEN /\ retry' = retry + 1
       /\ pc' = [pc EXCEPT !["app"] = "ts_send"]
       /\ UNCHANGED <<idx, ret>>
  ELSE /\ ret' = "False"
       /\ pc' = [pc EXCEPT !["app"] = "idle"]
       /\ UNCHANGED <<retry, idx>>

\* confirmation = self.receive(block=True, timeout=...) returns an item
AppConfirmGet ==
  /\ pc["app"] \in WaitStates
  /\ queue_receive # <<>>
  /\ LET confirmation == Some(QueueFront(queue_receive))
     IN  /\ got' = confirmation
         /\ AfterConfirmation(ConfirmationOk(confirmation, AwaitedKind))
  /\ queue_receive' = QueueRest(queue_receive)
  /\ opTook' = opTook + 1
  /\ UNCHANGED <<running, queue_send, sock_send, sock_receive, op,
                 opsDone, opHist,
                 envVars, histVars>>
  /\ UNCHANGED <<connectVars, state>>

\* confirmation = self.receive(block=True, timeout=...) returns None
AppConfirmTimeout ==
  /\ pc["app"] \in WaitStates
  /\ queue_receive = <<>>
  /\ GetRaisesEmpty("timeout")
  /\ got' = None
  /\ AfterConfirmation(ConfirmationOk(None, AwaitedKind))
  /\ UNCHANGED <<sessionVars, op, opsDone, opHist, opTook, envVars, histVars>>
  /\ UNCHANGED <<connectVars, state>>

App ==
  \/ AppConnect \/ AppDisconnect \/ AppSend
  \/ AppReceive \/ AppReceiveGet \/ AppReceiveEmpty
  \/ AppSendPacket \/ AppSendTrajectory
  \/ AppTrajectoryStart \/ AppTrajectorySample \/ AppTrajectoryEnd
  \/ AppConfirmGet \/ AppConfirmTimeout
  \/ Disconnect("app")

Next == App \/ Sender \/ Receiver \/ PeerInject

Spec == Init /\ [][Next]_vars

(***************************************************************************)
(* Scheduling: each thread that can take a step eventually takes one, and  *)
(* a timeout that has passed is eventually noticed.  The peer is under no  *)
(* obligation.                                                             *)
(***************************************************************************)
ThreadSteps ==
  \/ AppReceiveGet \/ AppReceiveEmpty
  \/ AppTrajectoryStart \/ AppTrajectorySample \/ AppTrajectoryEnd
  \/ AppConfirmGet \/ AppConfirmTimeout
  \/ Disconnect("app")
  \/ Sender
  \/ ReceiverLoop \/ ReceiverRecv \/ Disconnect("receiver")

FairSpec == Spec /\ WF_vars(ThreadSteps)


(***************************************************************************)
(* The application of rv.py: App.run's state machine on a session that     *)
(* App.__init__ constructs connected.  A state handler that calls into the *)
(* session is split where the call blocks.  What the screen, the keyboard, *)
(* the mouse and the tracker give is chosen freely; the calibration's      *)
(* retry counter is not followed (calibration may give up at any try).     *)
(* The model follows MaxOps calls made from the tracking state.            *)
(***************************************************************************)
RvInit == Init /\ running

StartCall == [kind |-> START, data |-> None, confirm |-> TRUE]
StopCall == [kind |-> STOP, data |-> None, confirm |-> FALSE]
BallCall == [kind |-> BALL_POSITION, data |-> Some(Position), confirm |-> FALSE]

\* (mutant) a handshake that ignores the result of send_start
HandshakeNext_Always(ok) == "STATE_CAPTURE_AREA"

\* if self.comm.send_start(): ... STATE_CAPTURE_AREA else: ... STATE_QUIT
HandshakeNext(ok) == IF ok THEN "STATE_CAPTURE_AREA" ELSE "STATE_QUIT"

\* _state_handshake, up to the wait inside send_start
StateHandshake ==
  /\ state = "STATE_HANDSHAKE"
  /\ op.name = "none"
  /\ Call(PacketOp(StartCall))
  /\ SendPacket(StartCall)
  /\ UNCHANGED <<connectVars, state>>

\* _state_handshake, from the return of send_start
StateHandshakeResult ==
  /\ state = "STATE_HANDSHAKE"
  /\ pc["app"] = "idle"
  /\ op.name = "send_packet"
  /\ state' = HandshakeNext(ret = "True")
  /\ UNCHANGED <<sessionVars, pc, appVars, envVars, histVars, connectVars>>

\* _state_capture_area with _mouse_callback_select: the key q quits, a
\* selection that is large enough goes on to the calibration
StateCaptureArea ==
  /\ state = "STATE_CAPTURE_AREA"
  /\ pc["app"] = "idle"
  /\ state' \in {"STATE_QUIT", "STATE_CALIBRATE"}
  /\ UNCHANGED <<sessionVars, pc, appVars, envVars, histVars, connectVars>>

\* _state_calibrate: the ball is found, or the calibration gives up
StateCalibrate ==
  /\ state = "STATE_CALIBRATE"
  /\ pc["app"] = "idle"
  /\ state' \in {"STATE_TRACKING", "STATE_QUIT"}
  /\ UNCHANGED <<sessionVars, pc, appVars, envVars, histVars, connectVars>>

\* _state_tracking when the ball is found: send_ball_position, then the key
StateTrackingFound ==
  /\ state = "STATE_TRACKING"
  /\ Begin(PacketOp(BallCall))
  /\ SendPacket(BallCall)
  /\ state' \in {"STATE_TRACKING", "STATE_CAPTURE_AREA", "STATE_QUIT"}
  /\ UNCHANGED connectVars

\* _state_tracking when no ball is found: the key r or q
StateTrackingKey ==
  /\ state = "STATE_TRACKING"
  /\ pc["app"] = "idle"
  /\ state' \in {"STATE_CAPTURE_AREA", "STATE_QUIT"}
  /\ UNCHANGED <<sessionVars, pc, appVars, envVars, histVars, connectVars>>

\* _mouse_callback on EVENT_LBUTTONUP, run from cv2.waitKey of the tracking
\* state: send_trajectory(trajectory)
MouseButtonUp ==
  /\ state = "STATE_TRACKING"
  /\ \E t \in Trajectories : SendTrajectory(t)
  /\ UNCHANGED <<connectVars, state>>

\* _state_quit: self.comm.send_stop()
StateQuit ==
  /\ state = "STATE_QUIT"
  /\ ~(op.name = "send_packet" /\ op.kind = STOP)
  /\ op.name # "disconnect"
  /\ Call(PacketOp(StopCall))
  /\ SendPacket(StopCall)
  /\ UNCHANGED <<connectVars, state>>

\* _state_quit: self.comm.disconnect(), after which run() leaves its loop
StateQuitDisconnect ==
  /\ state = "STATE_QUIT"
  /\ op.name = "send_packet" /\ op.kind = STOP
  /\ Call([NoOp EXCEPT !.name = "disconnect"])
  /\ pc' = [pc EXCEPT !["app"] = "d_enter"]
  /\ UNCHANGED <<sessionVars, retry, idx, ret, got, envVars, histVars,
                 connectVars, state>>

Run ==
  \/ StateHandshake \/ StateHandshakeResult
  \/ StateCaptureArea \/ StateCalibrate
  \/ StateTrackingFound \/ StateTrackingKey \/ MouseButtonUp
  \/ StateQuit \/ StateQuitDisconnect
  \/ AppTrajectoryStart \/ AppTrajectorySample \/ AppTrajectoryEnd
  \/ AppConfirmGet \/ AppConfirmTimeout
  \/ Disconnect("app")

RvNext == Run \/ Sender \/ Receiver \/ PeerInject

RvSpec == RvInit /\ [][RvNext]_vars

(***************************************************************************)
(* The codec on its own: one send_packet(kind, data) with any kind and any *)
(* payload over CodecValues, on a connected session whose peer echoes,     *)
(* then the sender thread's _send and the receiver thread's _receive.      *)
(***************************************************************************)
CodecValues == {-6, -1, 0, 3, 255, 4095}
Payloads == {<<a, b, c>> : a \in CodecValues, b \in CodecValues,
                           c \in CodecValues}

CodecInit == Init /\ mode = "echo" /\ running

CodecSendPacket ==
  /\ opsDone = 0
  /\ \E kind \in PacketTypes, payload \in Payloads :
       /\ Begin([NoOp EXCEPT !.name = "send_packet", !.kind = kind,
                             !.data = Some(payload)])
       /\ Send(Some(BuildPacket(kind, Some(payload))))
  /\ ret' = "True"
  /\ UNCHANGED <<running, queue_receive, sock_send, sock_receive, pc,
                 retry, idx, got, envVars, connectVars, state>>

CodecNext ==
  \/ CodecSendPacket
  \/ SenderLoop \/ SenderGet \/ SenderEmpty
  \/ ReceiverLoop \/ ReceiverRecv

CodecSpec == CodecInit /\ [][CodecNext]_vars

(***************************************************************************)
(* send_packet's frame on its own: one send_packet(kind, data) with any    *)
(* kind and with no data or data of 1 to 3 values over FrameValues, on a   *)
(* connected session, then the sender thread's _send.                      *)
(***************************************************************************)
FrameValues == {-6, 0, 3, 255}
FrameData ==
  {None}
  \cup {Some(<<a>>) : a \in FrameValues}
  \cup {Some(<<a, b>>) : a \in FrameValues, b \in FrameValues}
  \cup {Some(<<a, b, c>>) : a \in FrameValues, b \in FrameValues,
                            c \in FrameValues}

FrameInit == Init /\ mode = "silent" /\ running

FrameSendPacket ==
  /\ opsDone = 0
  /\ \E kind \in PacketTypes, data \in FrameData :
       LET call == [kind |-> kind, data |-> data, confirm |-> FALSE]
       IN  /\ Begin(PacketOp(call))
           /\ IF Assignable(data)
              THEN SendPacket(call)
              ELSE /\ ret' = "ValueError"
                   /\ UNCHANGED <<sessionVars, pc, retry, idx, got, envVars,
                                  histVars>>
  /\ UNCHANGED <<connectVars, state>>

FrameNext ==
  \/ FrameSendPacket
  \/ SenderLoop \/ SenderGet \/ SenderEmpty

FrameSpec == FrameInit /\ [][FrameNext]_vars

(***************************************************************************)
(* The life of one session: connect, disconnect and send on a session      *)
(* that was constructed connected to an echoing peer, MaxLiveOps calls     *)
(* long, with the sender thread scheduled fairly: a step of _sender that   *)
(* stays possible is eventually taken.                                     *)
(***************************************************************************)
LiveInit == Init /\ mode = "echo" /\ running

LiveConnect ==
  /\ opsDone < MaxLiveOps
  /\ Connect([ip |-> None, port_send |-> None, port_receive |-> None])

LiveDisconnect ==
  /\ opsDone < MaxLiveOps
  /\ Call([NoOp EXCEPT !.name = "disconnect"])
  /\ pc' = [pc EXCEPT !["app"] = "d_enter"]
  /\ UNCHANGED <<sessionVars, retry, idx, ret, got, envVars, histVars,
                 connectVars, state>>

LiveSend ==
  /\ opsDone < MaxLiveOps
  /\ \E data \in {None, Some(RawArray)} :
       /\ Call([NoOp EXCEPT !.name = "send", !.data = data])
       /\ Send(data)
  /\ ret' = "None"
  /\ UNCHANGED <<running, queue_receive, sock_send, sock_receive, pc,
                 retry, idx, got, envVars, connectVars, state>>

LiveNext ==
  \/ LiveConnect \/ LiveDisconnect \/ LiveSend
  \/ Disconnect("app")
  \/ Sender
  \/ ReceiverLoop \/ ReceiverRecv

LiveSpec == LiveInit /\ [][LiveNext]_vars /\ WF_vars(Sender)

(***************************************************************************)
(* Vocabulary of the properties.                                           *)
(***************************************************************************)
\* the application's last call was `name` and it has returned
Returned(name) == pc["app"] = "idle" /\ op.name = name

\* the datagrams of the current call that were handed to the transport
OpWire == SelectSeq(wire, LAMBDA w : w.id >= opFirstId)

\* their kinds (field 0 of the decoded datagram)
Kinds(frames) == [i \in 1..Len(frames) |-> Unpack(frames[i].bytes)[1]]

RECURSIVE Repeat(_, _)
Repeat(x, n) == IF n = 0 THEN <<>> ELSE <<x>> \o Repeat(x, n - 1)

\* one full attempt of a trajectory of n points
FullAttempt(n) ==
  <<TRAJECTORY_START>> \o Repeat(TRAJECTORY_SAMPLE, n) \o <<TRAJECTORY_END>>

DisconnectStates ==
  {"d_enter", "d_join_r", "d_join_s", "d_close_s", "d_close_s2", "d_clear_s",
   "d_close_r", "d_close_r2", "d_clear_r"}

(***************************************************************************)
(* C1.  As stated: with a peer that echoes every datagram, send_trajectory *)
(* of 4 points on a connected session returns success and the transport    *)
(* gets exactly TRAJECTORY_START, four TRAJECTORY_SAMPLE, TRAJECTORY_END.  *)
(* The code refutes it: the echoes of the samples are queued ahead of the  *)
(* echo of TRAJECTORY_END and are taken as its confirmation.               *)
(***************************************************************************)
C1_AsStated ==
  (/\ mode = "echo"
   /\ Returned("send_trajectory")
   /\ Len(op.traj) = 4
   /\ opConnected /\ opClean)
  => /\ ret = "True"
     /\ Kinds(OpWire) = FullAttempt(4)

\* C1, amended: with a peer that echoes the datagrams of the confirmed
\* kinds only (START, TRAJECTORY_START, TRAJECTORY_END), send_trajectory of
\* 4 points, called on a connected session with nothing outstanding,
\* returns success and the transport gets exactly TRAJECTORY_START, four
\* TRAJECTORY_SAMPLE and TRAJECTORY_END, in that order.
C1_HappyPath ==
  (/\ mode = "ack"
   /\ Returned("send_trajectory")
   /\ Len(op.traj) = 4
   /\ opConnected /\ opClean)
  => /\ ret = "True"
     /\ Kinds(OpWire) = FullAttempt(4)

C1_Witness ==
  /\ mode = "ack"
  /\ Returned("send_trajectory")
  /\ Len(op.traj) = 4
  /\ opConnected /\ opClean
  /\ ret = "True"
  /\ Len(OpWire) = 6

(***************************************************************************)
(* C2.  As stated: with a peer that ignores the first TRAJECTORY_START and *)
(* confirms afterwards, send_trajectory of at least 3 points succeeds      *)
(* within COMMUNICATION_RETRIES attempts and the transport shows the full  *)
(* start/sample/end sequence once per attempt.  The code refutes the       *)
(* second half: an attempt whose start is not confirmed sends nothing but  *)
(* its TRAJECTORY_START.                                                   *)
(***************************************************************************)
C2_AsStated ==
  (/\ mode = "ack_drop1"
   /\ Returned("send_trajectory")
   /\ Len(op.traj) >= 3
   /\ opConnected /\ opClean /\ opPeerFresh)
  => /\ ret = "True"
     /\ retry + 1 <= COMMUNICATION_RETRIES
     /\ Kinds(OpWire) =
          FullAttempt(Len(op.traj)) \o FullAttempt(Len(op.traj))

\* C2, amended: with such a peer, send_trajectory of at least 3 points,
\* called on a connected session with nothing outstanding, succeeds on its
\* second attempt, and the transport shows the lone TRAJECTORY_START of the
\* failed attempt followed by the full start/sample/end sequence of the
\* successful one.
C2_RetryThenSucceed ==
  (/\ mode = "ack_drop1"
   /\ Returned("send_trajectory")
   /\ Len(op.traj) >= 3
   /\ opConnected /\ opClean /\ opPeerFresh)
  => /\ ret = "True"
     /\ retry = 1
     /\ Kinds(OpWire) = <<TRAJECTORY_START>> \o FullAttempt(Len(op.traj))

C2_Witness ==
  /\ mode = "ack_drop1"
  /\ Returned("send_trajectory")
  /\ Len(op.traj) = 3
  /\ opConnected /\ opClean /\ opPeerFresh
  /\ ret = "True"
  /\ retry = 1

(***************************************************************************)
(* C3.  As stated: with a peer that echoes every datagram, every           *)
(* send_packet(K, confirm=True) on a connected session returns success.    *)
(* The code refutes it: after an unconfirmed packet (send_ball_position,   *)
(* send_stop) the echo of that packet is taken as the confirmation.        *)
(***************************************************************************)
C3_AsStated ==
  (/\ mode = "echo"
   /\ Returned("send_packet")
   /\ op.confirm
   /\ opConnected)
  => ret = "True"

\* C3, amended: with a peer that echoes every datagram,
\* send_packet(K, confirm=True) returns success for every kind K, and so
\* send_start() returns true, when it is called on a connected session with
\* nothing outstanding (no echo of an earlier packet queued or under way).
C3_ConfirmSuccess ==
  (/\ mode = "echo"
   /\ Returned("send_packet")
   /\ op.confirm
   /\ opConnected /\ opClean)
  => ret = "True"

C3_Witness ==
  /\ mode = "echo"
  /\ Returned("send_packet")
  /\ op.confirm /\ op.kind = START
  /\ opConnected /\ opClean
  /\ opsDone = 2
  /\ ret = "True"

(***************************************************************************)
(* C4.  When the peer never replies, send_packet(K, confirm=True) does not *)
(* block forever: while it waits, the inbound queue is empty, its frame    *)
(* has been queued exactly once and the timeout can end the wait; and when *)
(* it has returned, it returned failure, with that one frame queued and    *)
(* nothing taken from the inbound queue.                                   *)
(***************************************************************************)
C4_ConfirmTimeout ==
  mode \in {"silent", "resetting"}
  => /\ pc["app"] = "pkt_wait"
          => /\ queue_receive = <<>>
             /\ nextId = opFirstId + 1
             /\ ENABLED AppConfirmTimeout
     /\ (Returned("send_packet") /\ op.confirm)
          => /\ ret = "False"
             /\ nextId = opFirstId + 1
             /\ opTook = 0

C4_Witness ==
  /\ mode = "silent"
  /\ Returned("send_packet")
  /\ op.confirm
  /\ opConnected
  /\ ret = "False"
  /\ nextId = opFirstId + 1

(***************************************************************************)
(* C5.  send_trajectory with fewer than 3 points returns failure in the    *)
(* same step and touches neither queue nor the transport.                  *)
(***************************************************************************)
C5_TrajectoryGuard ==
  [][ (/\ opsDone' = opsDone + 1
       /\ op'.name = "send_trajectory"
       /\ Len(op'.traj) < 3)
      => /\ pc'["app"] = "idle"
         /\ ret' = "False"
         /\ queue_send' = queue_send
         /\ queue_receive' = queue_receive
         /\ nextId' = nextId
         /\ wire' = wire
         /\ net_in' = net_in ]_vars

C5_Witness ==
  /\ Returned("send_trajectory")
  /\ Len(op.traj) = 2
  /\ ret = "False"
  /\ queue_send # <<>>
  /\ queue_receive # <<>>

(***************************************************************************)
(* C6.  The datagrams handed to the transport are the packed payloads of   *)
(* send() calls, in the order of the calls, none of them twice.            *)
(***************************************************************************)
C6_FifoOrder ==
  \A i \in 1..Len(wire) :
    /\ wire[i].id < nextId
    /\ wire[i].bytes = Pack(TheValue(sentLog[wire[i].id + 1]))
    /\ i > 1 => wire[i - 1].id < wire[i].id

C6_Witness ==
  /\ Len(wire) >= 2
  /\ wire[1].bytes # wire[2].bytes
  /\ running

(***************************************************************************)
(* C7.  A socket handle is never closed or cleared while the sender or     *)
(* the receiver thread is alive.  The code violates it.                    *)
(***************************************************************************)
C7_NoCloseWhileAlive ==
  (Alive("sender") \/ Alive("receiver"))
  => (sock_send = "open" /\ sock_receive = "open")

(***************************************************************************)
(* C8.  Once disconnect() is called it eventually returns, whatever the    *)
(* peer does: as long as it has not returned, some thread can take a step  *)
(* without a datagram from the peer.  The code violates it: the receiver   *)
(* thread stays in recv, which has no timeout, and the join never ends.    *)
(***************************************************************************)
C8_DisconnectReturns ==
  (op.name = "disconnect" /\ pc["app"] # "idle")
  => \/ ENABLED Disconnect("app")
     \/ ENABLED Sender
     \/ ENABLED (ReceiverLoop \/ ReceiverRecv \/ Disconnect("receiver"))

(***************************************************************************)
(* C9.  Once the receiver thread has handled a connection reset, the       *)
(* session is disconnected (running false, both threads stopped or         *)
(* stopping, both handles cleared) and no exception has ended the thread.  *)
(* The code violates it.                                                   *)
(***************************************************************************)
C9_ResetDisconnects ==
  (resets > 0 /\ pc["receiver"] \notin DisconnectStates)
  => /\ pc["receiver"] # "crashed"
     /\ ~running
     /\ sock_send = "none"
     /\ sock_receive = "none"
     /\ ~Alive("sender")

(***************************************************************************)
(* C10.  Every item of the inbound queue has exactly PACKET_SIZE fields,   *)
(* and a read of a datagram that is not 32 bytes long queues nothing and   *)
(* leaves the receiver thread running.                                     *)
(***************************************************************************)
C10_MalformedDropped ==
  [][ /\ \A i \in 1..Len(queue_receive') : Len(queue_receive'[i]) = 4
      /\ (/\ pc["receiver"] = "recv"
          /\ sock_receive = "open" /\ sock_receive' = "open"
          /\ net_in # <<>> /\ net_in' = Tail(net_in)
          /\ Len(Head(net_in)) # 32)
         => /\ queue_receive' = queue_receive
            /\ pc'["receiver"] = (IF running THEN "recv" ELSE "done") ]_vars

C10_Witness ==
  /\ mode = "noisy"
  /\ opsDone = 0
  /\ injected = 1
  /\ net_in = <<>>
  /\ queue_receive = <<>>
  /\ pc["receiver"] = "recv"

(***************************************************************************)
(* C11.  connect() on a connected session, and every step of disconnect()  *)
(* on a disconnected one, raises nothing, starts no thread, and opens or   *)
(* closes no socket: running, both handles, both threads and the number of *)
(* sockets created stay as they are.                                       *)
(***************************************************************************)
SessionKept ==
  /\ running' = running
  /\ sock_send' = sock_send
  /\ sock_receive' = sock_receive
  /\ opened' = opened
  /\ pc'["sender"] = pc["sender"]
  /\ pc'["receiver"] = pc["receiver"]

C11_Idempotent ==
  [][ /\ (opsDone' = opsDone + 1 /\ op'.name = "connect" /\ Connected)
         => (SessionKept /\ ret' = "None" /\ pc'["app"] = "idle")
      /\ (/\ op'.name = "disconnect"
          /\ opDisconnected'
          /\ pc'["app"] # pc["app"])
         => /\ SessionKept
            /\ pc'["app"] \in DisconnectStates \cup {"idle"}
            /\ pc'["app"] = "idle" => ret' = "None" ]_vars

C11_Witness ==
  /\ Returned("disconnect")
  /\ opDisconnected
  /\ pc["sender"] = "done"
  /\ opened = 2
  /\ ret = "None"

(***************************************************************************)
(* C12.  receive() on an empty inbound queue does not suspend the caller   *)
(* for ever: while the call waits on an empty queue, either it can return  *)
(* None, or an item can still reach the queue (a datagram is waiting to be *)
(* read, a reply of the peer is under way, or the peer can send one).  The *)
(* code violates it: receive() without arguments is Queue.get() with       *)
(* block=True and no timeout.                                              *)
(***************************************************************************)
C12_ReceiveReturns ==
  (pc["app"] = "rx_wait" /\ queue_receive = <<>>)
  => \/ ENABLED AppReceiveEmpty
     \/ ReplyCanArrive
     \/ ENABLED PeerInject

(***************************************************************************)
(* C13.  send_packet(kind, data, confirm=True) queues exactly one frame    *)
(* and takes at most one inbound item; it returns success if and only if   *)
(* it obtained an item whose field 0 is the kind sent.  A timeout (no      *)
(* item) and an item of another kind both give the same failure, and       *)
(* neither queues the frame again.                                         *)
(***************************************************************************)
C13_ConfirmIff ==
  /\ pc["app"] = "pkt_wait" => (nextId = opFirstId + 1 /\ opTook = 0)
  /\ (Returned("send_packet") /\ op.confirm)
       => /\ nextId = opFirstId + 1
          /\ sentLog[nextId] = Some(BuildPacket(op.kind, op.data))
          /\ opTook \in {0, 1}
          /\ opTook = 0 <=> IsNone(got)
          /\ ret \in {"True", "False"}
          /\ ret = "True" <=> (~IsNone(got) /\ TheValue(got)[1] = op.kind)

C13_Witness ==
  /\ Returned("send_packet")
  /\ op.confirm
  /\ opTook = 1
  /\ TheValue(got)[1] # op.kind
  /\ ret = "False"
  /\ nextId = opFirstId + 1

(***************************************************************************)
(* C14.  send_trajectory with at least 3 points makes at most              *)
(* COMMUNICATION_RETRIES attempts and so queues at most that many          *)
(* TRAJECTORY_START frames.  It returns success exactly when the           *)
(* TRAJECTORY_END of an attempt is confirmed (an attempt sends its end     *)
(* only after its start was confirmed), it queues nothing after that, and  *)
(* it returns failure exactly when the last attempt fails.                 *)
(***************************************************************************)
\* the kinds of the frames the current call has queued, in order
OpSentKinds ==
  [i \in 1..(nextId - opFirstId) |-> TheValue(sentLog[opFirstId + i])[1]]

Count(seq, x) == Cardinality({i \in DOMAIN seq : seq[i] = x})

\* the head of the inbound queue is a frame of the given kind
HeadIs(kind) == queue_receive # <<>> /\ Head(queue_receive)[1] = kind

C14_BoundedRetries ==
  [][ (op'.name = "send_trajectory" /\ Len(op'.traj) >= 3)
      => /\ retry' < COMMUNICATION_RETRIES
         /\ Count(OpSentKinds', TRAJECTORY_START) <= COMMUNICATION_RETRIES
         /\ Count(OpSentKinds', TRAJECTORY_START) =
              (IF pc'["app"] = "ts_send" THEN retry' ELSE retry' + 1)
         /\ pc'["app"] = "te_wait"
              => /\ Len(OpSentKinds') >= Len(op'.traj) + 2
                 /\ SubSeq(OpSentKinds', Len(OpSentKinds') - Len(op'.traj) - 1,
                           Len(OpSentKinds')) = FullAttempt(Len(op'.traj))
         /\ (pc["app"] \in {"ts_wait", "te_wait"} /\ pc'["app"] # pc["app"])
              => /\ (pc'["app"] = "idle" /\ ret' = "True")
                      <=> (pc["app"] = "te_wait" /\ HeadIs(TRAJECTORY_END))
                 /\ (pc'["app"] = "idle" /\ ret' = "False")
                      <=> /\ retry = COMMUNICATION_RETRIES - 1
                          /\ ~(pc["app"] = "ts_wait" /\ HeadIs(TRAJECTORY_START))
                          /\ ~(pc["app"] = "te_wait" /\ HeadIs(TRAJECTORY_END))
                 /\ pc'["app"] = "idle" => nextId' = nextId
                 /\ pc'["app"] = "sample"
                      <=> (pc["app"] = "ts_wait" /\ HeadIs(TRAJECTORY_START)) ]_vars

C14_Witness ==
  /\ Returned("send_trajectory")
  /\ Len(op.traj) >= 3
  /\ ret = "False"
  /\ retry = COMMUNICATION_RETRIES - 1
  /\ Count(OpSentKinds, TRAJECTORY_START) = COMMUNICATION_RETRIES
  /\ Count(OpSentKinds, TRAJECTORY_END) >= 1

(***************************************************************************)
(* C15.  Whenever running is true, the sender thread and the receiver      *)
(* thread are both alive.  (There is one Thread object of each, so never   *)
(* more than one.)  The code violates it: connect() after a disconnect()   *)
(* sets running and then fails to start the threads a second time.         *)
(***************************************************************************)
C15_OneOfEach ==
  running => (Alive("sender") /\ Alive("receiver"))

(***************************************************************************)
(* C16.  connect(ip, port_send, port_receive) called while a socket is     *)
(* open is a no-op: it leaves the handles and the threads as they are and  *)
(* overwrites no address field that is already set.  The code violates     *)
(* it: the fields are assigned from the arguments before the sockets are   *)
(* looked at.                                                              *)
(***************************************************************************)
C16_ConnectKeepsFields ==
  [][ (opsDone' = opsDone + 1 /\ op'.name = "connect" /\ SocketsOpen)
      => /\ SessionKept
         /\ ~IsNone(ip) => ip' = ip
         /\ ~IsNone(port_send) => port_send' = port_send
         /\ ~IsNone(port_receive) => port_receive' = port_receive ]_vars

(***************************************************************************)
(* C17.  For every kind and every payload of three values, the datagram    *)
(* handed to the transport is 32 bytes that decode to (kind, payload[0],   *)
(* payload[1], payload[2]), and so is the item the receiver thread queues  *)
(* from the echoed datagram; one frame sent gives at most one item.        *)
(***************************************************************************)
C17_RoundTrip ==
  LET frame == <<op.kind>> \o TheValue(op.data)
  IN  /\ Len(wire) <= 1 /\ Len(queue_receive) <= 1
      /\ \A i \in DOMAIN wire :
           /\ Len(wire[i].bytes) = 32
           /\ Unpack(wire[i].bytes) = frame
      /\ \A i \in DOMAIN queue_receive :
           /\ Len(queue_receive[i]) = 4
           /\ queue_receive[i] = frame

C17_Witness ==
  /\ op.kind = BALL_POSITION
  /\ op.data = Some(<<-6, 255, 4095>>)
  /\ queue_receive = << <<BALL_POSITION, -6, 255, 4095>> >>
  /\ net_in = <<>>

(***************************************************************************)
(* C18.  The application leaves the handshake state only when send_start() *)
(* has returned: for the capture-area state if it returned true, for the   *)
(* quit state if it returned false.  The capture-area, calibrate and       *)
(* tracking states are entered from the handshake state only after a true  *)
(* result, and the quit state is never left.                               *)
(***************************************************************************)
Working == {"STATE_CAPTURE_AREA", "STATE_CALIBRATE", "STATE_TRACKING"}

C18_HandshakeGate ==
  [][ /\ (state = "STATE_HANDSHAKE" /\ state' # state)
         => /\ Returned("send_packet") /\ op.kind = START /\ op.confirm
            /\ nextId = 1 /\ sentLog[1] = Some(<<START, 0, 0, 0>>)
            /\ ret = "True" => state' = "STATE_CAPTURE_AREA"
            /\ ret # "True" => state' = "STATE_QUIT"
      /\ (state' \in Working /\ state \notin Working)
         => (state = "STATE_HANDSHAKE" /\ ret = "True")
      /\ state = "STATE_QUIT" => state' = "STATE_QUIT"
      /\ state' \in States ]_vars

C18_Witness ==
  /\ state = "STATE_QUIT"
  /\ Returned("send_packet") /\ op.kind = START
  /\ ret = "False"
  /\ mode = "silent"

(***************************************************************************)
(* C19.  In every attempt of send_trajectory whose TRAJECTORY_START is     *)
(* confirmed, the frames queued are the start frame with the number of     *)
(* points in field 1, then one TRAJECTORY_SAMPLE frame per point, in the   *)
(* trajectory's order, then one TRAJECTORY_END frame with a zero payload.  *)
(* An attempt whose start is not confirmed queues its start frame alone.   *)
(***************************************************************************)
\* the frames the current call has queued, in order
OpSent == [i \in 1..(nextId - opFirstId) |-> TheValue(sentLog[opFirstId + i])]

\* the frames of one complete attempt
AttemptFrames(t) ==
  << <<TRAJECTORY_START, Len(t), 0, 0>> >>
  \o [i \in 1..Len(t) |-> <<TRAJECTORY_SAMPLE>> \o t[i]]
  \o << <<TRAJECTORY_END, 0, 0, 0>> >>

\* the last n frames the current call has queued
LastSent(n) == SubSeq(OpSent, Len(OpSent) - n + 1, Len(OpSent))

C19_AttemptFrames ==
  (op.name = "send_trajectory" /\ Len(op.traj) >= 3)
  => LET n == Len(op.traj)
         A == AttemptFrames(op.traj)
     IN  \* the attempt under way, its start confirmed
         /\ pc["app"] = "sample" => LastSent(idx) = SubSeq(A, 1, idx)
         /\ pc["app"] = "te_send" => LastSent(n + 1) = SubSeq(A, 1, n + 1)
         /\ pc["app"] = "te_wait" => LastSent(n + 2) = A
         \* the attempts before it
         /\ \A i \in DOMAIN OpSent :
              IF OpSent[i][1] = TRAJECTORY_START
              THEN /\ OpSent[i] = A[1]
                   /\ (i < Len(OpSent) /\ OpSent[i + 1][1] # TRAJECTORY_START)
                        => \A k \in 2..(n + 2) :
                             i + k - 1 <= Len(OpSent) => OpSent[i + k - 1] = A[k]
              ELSE i > 1 /\ OpSent[i - 1][1] # TRAJECTORY_END

C19_Witness ==
  /\ op.name = "send_trajectory"
  /\ Len(op.traj) = 4
  /\ pc["app"] = "te_wait"
  /\ retry = 1
  /\ Count(OpSentKinds, TRAJECTORY_START) = 2
  /\ Count(OpSentKinds, TRAJECTORY_SAMPLE) = 4
  /\ Count(OpSentKinds, TRAJECTORY_END) = 1

(***************************************************************************)
(* C20.  The confirmation is matched by kind alone: a confirmed send       *)
(* succeeds exactly when the item at the head of the inbound queue, taken  *)
(* when the wait ends, has the kind that was sent, whatever its payload    *)
(* and whenever it was received, be it before the packet was queued or     *)
(* before the sender thread has handed the packet to the transport.        *)
(***************************************************************************)
C20_NoCorrelation ==
  [][ /\ (pc["app"] = "pkt_wait" /\ pc'["app"] # "pkt_wait")
         => /\ pc'["app"] = "idle"
            /\ ret' = "True" <=> HeadIs(op.kind)
      /\ (pc["app"] = "ts_wait" /\ pc'["app"] # "ts_wait")
         => (pc'["app"] = "sample" <=> HeadIs(TRAJECTORY_START)) ]_vars

\* a success on a frame that was in the receive socket's buffer or the
\* inbound queue before the call, with the packet itself not yet handed to
\* the transport
C20_Witness ==
  /\ Returned("send_packet")
  /\ op.confirm
  /\ ret = "True"
  /\ ~opClean
  /\ queue_send # <<>>
  /\ Head(queue_send).id = opFirstId

(***************************************************************************)
(* C21.  send_packet(kind, data) with data of k values, 0 <= k <= 3, or    *)
(* with no data, queues a frame of 4 fields: the kind, then the k values,  *)
(* then zeros.  The code violates it for k = 2 (the assignment raises      *)
(* ValueError and nothing is queued) and for k = 1 (the value is written   *)
(* to all three fields).                                                   *)
(***************************************************************************)
ZeroFilled(values) ==
  [i \in 1..(PACKET_SIZE - 1) |->
     IF i <= Len(values) THEN values[i] ELSE 0]

C21_FrameLayout ==
  (op.name = "send_packet" /\ pc["app"] = "idle")
  => /\ ret = "True"
     /\ nextId = opFirstId + 1
     /\ sentLog[nextId] =
          Some(<<op.kind>> \o ZeroFilled(IF IsNone(op.data) THEN <<>>
                                         ELSE TheValue(op.data)))

(***************************************************************************)
(* C22.  A session can be reused: connect() on a session that was          *)
(* connected and then disconnected (not running, no socket, both threads   *)
(* finished) raises nothing and leaves the session connected again:        *)
(* running, two new sockets open, the sender and the receiver alive.  The  *)
(* code violates it: the two Thread objects are created once, in           *)
(* __init__, and Thread.start raises RuntimeError on a thread that was     *)
(* started before, after running was set and the sockets were created.     *)
(***************************************************************************)
C22_Reusable ==
  [][ (/\ opsDone' = opsDone + 1
       /\ op'.name = "connect"
       /\ Disconnected
       /\ pc["sender"] # "new"
       /\ pc["receiver"] # "new")
      => /\ ret' = "None"
         /\ Connected'
         /\ opened' = opened + 2 ]_vars

(***************************************************************************)
(* C23.  Every payload that send() enqueued before disconnect() was called *)
(* on a connected session has been handed to the transport by the time the *)
(* sender thread has exited; in particular the STOP frame that _state_quit *)
(* enqueues just before it calls disconnect().  The code violates it: the  *)
(* sender tests running before every get, so once disconnect() has cleared *)
(* running it exits and leaves in the queue whatever it has not taken yet. *)
(***************************************************************************)
Transmitted(id) == \E i \in DOMAIN wire : wire[i].id = id

C23_FlushedBeforeExit ==
  (/\ op.name = "disconnect"
   /\ opConnected
   /\ pc["sender"] = "done")
  => \A id \in 0..(opFirstId - 1) :
       ~IsNone(sentLog[id + 1]) => Transmitted(id)

(***************************************************************************)
(* C24.  A send_packet call takes at most one item from the inbound queue, *)
(* and none when confirm is false.  The call itself takes nothing; the end *)
(* of its wait takes the head and only the head, so whatever is queued     *)
(* behind the head stays; a head of another kind makes the call return     *)
(* False; and once the call has returned it takes nothing more.  The      *)
(* send_packet calls made inside send_trajectory take the head alike.      *)
(***************************************************************************)
C24_HeadOnly ==
  [][ /\ (opsDone' = opsDone + 1 /\ op'.name = "send_packet")
         => /\ queue_receive' = queue_receive
            /\ opTook' = 0
            /\ ~op'.confirm => pc'["app"] = "idle"
      /\ (pc["app"] = "pkt_wait" /\ pc'["app"] # "pkt_wait")
         => /\ pc'["app"] = "idle"
            /\ opTook' <= 1
            /\ IF queue_receive = <<>>
               THEN /\ queue_receive' = <<>>
                    /\ opTook' = 0
                    /\ ret' = "False"
               ELSE /\ queue_receive' = Tail(queue_receive)
                    /\ opTook' = 1
                    /\ got' = Some(Head(queue_receive))
                    /\ Head(queue_receive)[1] # op.kind => ret' = "False"
      /\ (pc["app"] \in WaitStates /\ pc'["app"] # pc["app"])
         => queue_receive' = (IF queue_receive = <<>> THEN <<>>
                              ELSE Tail(queue_receive))
      /\ (Returned("send_packet") /\ opsDone' = opsDone)
         => /\ opTook' = opTook
            /\ Len(queue_receive') >= Len(queue_receive) ]_vars

\* a confirmed send that failed on a head of another kind, with a frame of
\* the kind it waited for left at the head of the queue
C24_Witness ==
  /\ Returned("send_packet")
  /\ op.confirm
  /\ ret = "False"
  /\ opTook = 1
  /\ TheValue(got)[1] # op.kind
  /\ HeadIs(op.kind)

(***************************************************************************)
(* C25.  Under fair scheduling of the sender thread, a payload other than  *)
(* None that is in the outbound queue is eventually handed to the          *)
(* transport, unless the session stops running or its send socket stops    *)
(* being open.  The code violates it: after a connect() that follows a     *)
(* disconnect() the session is running with its send socket open and has   *)
(* no sender thread, and what send() enqueues then is never taken.         *)
(***************************************************************************)
Queued(id) ==
  \E i \in DOMAIN queue_send :
    queue_send[i].id = id /\ ~IsNone(queue_send[i].data)

C25_EventuallySent ==
  \A id \in 0..(MaxLiveOps - 1) :
    Queued(id) ~> (Transmitted(id) \/ ~running \/ sock_send # "open")

=============================================================================
